---- MODULE Spec2Model ----
(***************************************************************************)
(* The assembly state engine of the tube joint visualizer (the component   *)
(* TubeJointVisualizer and the class Tube): the live tube list, the        *)
(* selection, the drag session, and the undo/redo history.                 *)
(*                                                                         *)
(* Conventions.                                                            *)
(*  - Every event handler runs to completion and React re-renders before   *)
(*    the next event, so one action is one handler followed by the effects *)
(*    its state changes trigger (tubesRef.current = tubes, the selection   *)
(*    effect).  tubesRef.current therefore equals tubes whenever a handler *)
(*    starts and is not a separate variable.                               *)
(*  - Lengths are integers in mm, positions integers in 1/1000 mm, angles  *)
(*    integers in degrees (the code keeps radians: degrees * PI / 180).    *)
(*  - historyIndex is 0-based as in the code; history is a TLA+ sequence,  *)
(*    so the entry at the cursor is history[historyIndex + 1].             *)
(*  - A THREE.Vector3 is an object.  Tube.clone copies it, restoreState    *)
(*    does not: the field `shared` of a live tube names the history slot   *)
(*    <<entry, slot>> whose position object the tube holds, or NoRef when  *)
(*    the tube owns its position object.  Rotations are shared the same    *)
(*    way, but no handler writes to a rotation after construction.         *)
(*  - The parameter state of the panel (tubeType, width, height,          *)
(*    thickness, length, angle, snapToAngle) is read by addTube only; its  *)
(*    values are drawn when AddTube fires.                                 *)
(*  - created counts the tubes constructed by addTube and steps the events *)
(*    handled; lastOp and session are history variables recording the last *)
(*    event and the drag session in progress.  None of the four is read by *)
(*    a handler.                                                           *)
(***************************************************************************)
EXTENDS Integers, Sequences, FiniteSets, TLC

\* ---------------------------------------------------------------- bounds
\* MaxOps bounds the number of events of a run (positions and yaw accumulate
\* along the chain, so the state space is unbounded).
MaxOps == 6
\* The number of events up to which addTube fires in the specifications that
\* operate the panel inputs: the dimension inputs, the angle slider.
MaxDimOps == 3
MaxAngleOps == 2

VARIABLES tubes, selectedTube, draggedTubeRef, history, historyIndex,
          created, steps, lastOp, session

vars == <<tubes, selectedTube, draggedTubeRef, history, historyIndex,
          created, steps, lastOp, session>>

\* ------------------------------------------------------------ input sets
None == 0
\* Math.random().toString(36).substr(2, 9): an id is an opaque string that is
\* only compared for equality, so the id of a new tube is one of the ids drawn
\* before (1 .. created) or a new one (created + 1).
Ids == 1 .. created + 1
\* The ids of the runs in which Math.random never repeats a value.
FreshIds == {created + 1}
NoRef == << >>
NoHit == << >>

TubeTypes == {"rectangular"}
Widths == {50}
Heights == {30}
Thicknesses == {3}
Lengths == {100}
Angles == {90}
DragPoints == {<<10000, 0, 20000>>}

\* Values typed into the panel: the select offers both tube types, the number
\* inputs take any number (no min attribute), the range input 0 .. 180.
PanelTubeTypes == {"rectangular", "square"}
PanelThicknesses == {0, 3, 15}
PanelAngles == 0 .. 180

Origin == <<0, 0, 0>>

\* history / historyIndex as seen by the handlers registered by the mount
\* effect (deps []): the values of the first render.
mountHistory == << >>
mountHistoryIndex == -1

\* ------------------------------------------------------------- Tube class
Tube(width, height, thickness, length, position, rotation, id) ==
    [id |-> id, width |-> width, height |-> height, thickness |-> thickness,
     length |-> length, position |-> position, rotation |-> rotation,
     isSelected |-> FALSE, shared |-> NoRef]

setSelected(t, selected) == [t EXCEPT !.isSelected = selected]

clone(t) ==
    [Tube(t.width, t.height, t.thickness, t.length, t.position, t.rotation, t.id)
       EXCEPT !.isSelected = t.isSelected]

\* The fields of a tube that the assembly is compared on.
Fields(t) ==
    [id |-> t.id, width |-> t.width, height |-> t.height,
     thickness |-> t.thickness, length |-> t.length,
     position |-> t.position, rotation |-> t.rotation]

FieldsOf(ts) == [k \in 1 .. Len(ts) |-> Fields(ts[k])]

\* ------------------------------------------------------- THREE.js helpers
Abs(x) == IF x < 0 THEN -x ELSE x

\* round(1000 * sin(d degrees)) for d = 0 .. 90
SinTable ==
    <<0, 17, 35, 52, 70, 87, 105, 122, 139, 156, 174, 191, 208, 225, 242,
      259, 276, 292, 309, 326, 342, 358, 375, 391, 407, 423, 438, 454, 469,
      485, 500, 515, 530, 545, 559, 574, 588, 602, 616, 629, 643, 656, 669,
      682, 695, 707, 719, 731, 743, 755, 766, 777, 788, 799, 809, 819, 829,
      839, 848, 857, 866, 875, 883, 891, 899, 906, 914, 921, 927, 934, 940,
      946, 951, 956, 961, 966, 970, 974, 978, 982, 985, 988, 990, 993, 995,
      996, 998, 999, 999, 1000, 1000>>

Sin1000(deg) ==
    LET d == deg % 360
    IN  IF d <= 90 THEN SinTable[d + 1]
        ELSE IF d <= 180 THEN SinTable[180 - d + 1]
        ELSE IF d <= 270 THEN -SinTable[d - 180 + 1]
        ELSE -SinTable[360 - d + 1]

Cos1000(deg) == Sin1000(deg + 90)

VecAdd(a, b) == <<a[1] + b[1], a[2] + b[2], a[3] + b[3]>>

\* applyEuler leaving the vector as it is: (0, 0, length / 2).
applyEulerUnrotated(length, rotation) == <<0, 0, (length * 1000) \div 2>>

\* new THREE.Vector3(0, 0, length / 2).applyEuler(rotation), Euler order XYZ:
\* length / 2 times the third column of the rotation matrix,
\* (sin y, -sin x cos y, cos x cos y); the result is in 1/1000 mm.
applyEuler(length, rotation) ==
    <<(length * Sin1000(rotation[2])) \div 2,
      -((length * Sin1000(rotation[1]) * Cos1000(rotation[2])) \div 2000),
      (length * Cos1000(rotation[1]) * Cos1000(rotation[2])) \div 2000>>

\* ------------------------------------------------------------ snap angles
\* The snap set without 30.
snapAnglesWithout30 == <<0, 45, 60, 90, 120, 135, 150, 180>>

snapAngles == <<0, 30, 45, 60, 90, 120, 135, 150, 180>>

\* The reduce with the test `<=`: on a tie the later, larger angle wins.
RECURSIVE reduceNearestTieToLater(_, _, _)
reduceNearestTieToLater(prev, i, angleValue) ==
    IF i > Len(snapAngles) THEN prev
    ELSE reduceNearestTieToLater(
           IF Abs(snapAngles[i] - angleValue) <= Abs(prev - angleValue)
             THEN snapAngles[i] ELSE prev,
           i + 1, angleValue)

RECURSIVE reduceNearest(_, _, _)
reduceNearest(prev, i, angleValue) ==
    IF i > Len(snapAngles) THEN prev
    ELSE reduceNearest(
           IF Abs(snapAngles[i] - angleValue) < Abs(prev - angleValue)
             THEN snapAngles[i] ELSE prev,
           i + 1, angleValue)

snapAngleFunc(snapToAngle, angleValue) ==
    IF ~snapToAngle THEN angleValue
    ELSE reduceNearest(snapAngles[1], 2, angleValue)

\* ---------------------------------------------------------------- history
\* tubesToSave.map(t => t.clone())
Snapshot(tubesToSave) == [k \in 1 .. Len(tubesToSave) |-> clone(tubesToSave[k])]

\* addToHistory without the slice: the redo-able future is kept.
addToHistoryNoTruncate(h, idx, tubesToSave) ==
    LET newHistory == Append(h, Snapshot(tubesToSave))
    IN  [history |-> newHistory, historyIndex |-> idx + 1]

\* addToHistory with setHistoryIndex(newHistory.length).
addToHistoryLengthIndex(h, idx, tubesToSave) ==
    LET newHistory == Append(SubSeq(h, 1, idx + 1), Snapshot(tubesToSave))
    IN  [history |-> newHistory, historyIndex |-> Len(newHistory)]

\* addToHistory evaluated in a closure that sees history h and cursor idx.
addToHistory(h, idx, tubesToSave) ==
    LET newHistory == Append(SubSeq(h, 1, idx + 1), Snapshot(tubesToSave))
    IN  [history |-> newHistory, historyIndex |-> Len(newHistory) - 1]

\* restoreState without `tube.id = tubeData.id`: the rebuilt tubes keep the
\* ids their constructor drew.
restoreStateNewId(h, e) ==
    [k \in 1 .. Len(h[e]) |->
        [Tube(h[e][k].width, h[e][k].height, h[e][k].thickness, h[e][k].length,
              h[e][k].position, h[e][k].rotation, created + k)
           EXCEPT !.shared = <<e, k>>]]

\* restoreState(history[e - 1]) for the 1-based entry number e: every tube is
\* rebuilt with new Tube(..., tubeData.position, tubeData.rotation), i.e.
\* around the entry's own position object, and takes the entry's id.
restoreState(h, e) ==
    [k \in 1 .. Len(h[e]) |->
        [Tube(h[e][k].width, h[e][k].height, h[e][k].thickness, h[e][k].length,
              h[e][k].position, h[e][k].rotation, h[e][k].id)
           EXCEPT !.shared = <<e, k>>]]

\* The effect on [selectedTube, tubes]: tube.setSelected(tube.id === selectedTube)
SelectionEffect(ts, sel) ==
    [k \in 1 .. Len(ts) |-> setSelected(ts[k], ts[k].id = sel)]

\* After addToHistory in a closure with cursor idx only the entries
\* 1 .. idx + 1 of that closure's history are still in the history: a live
\* tube holding the position object of any other entry is its only holder.
Detach(ts, idx) ==
    [k \in 1 .. Len(ts) |->
        IF ts[k].shared # NoRef /\ ts[k].shared[1] > idx + 1
          THEN [ts[k] EXCEPT !.shared = NoRef] ELSE ts[k]]

\* ------------------------------------------------------ ghost bookkeeping
Op(name, arg) == [name |-> name, arg |-> arg]

NoSession ==
    [phase |-> "none", tubes |-> << >>, history |-> << >>, historyIndex |-> -1,
     released |-> << >>]

\* The session ghost follows one drag session: press on a tube, moves,
\* release, then an undo and a redo; any other operation ends it.
NextSession(name) ==
    IF name = "onMouseMove" /\ session.phase = "dragging" THEN session
    ELSE IF name = "onMouseUp" /\ session.phase = "dragging"
      THEN [session EXCEPT !.phase = "released", !.released = FieldsOf(tubes')]
    ELSE IF name = "undo" /\ session.phase = "released"
      THEN [session EXCEPT !.phase = "undone"]
    ELSE IF name = "redo" /\ session.phase = "undone"
      THEN [session EXCEPT !.phase = "redone"]
    ELSE NoSession

Ghost(name, arg) ==
    /\ lastOp' = Op(name, arg)
    /\ session' = NextSession(name)
    /\ created' = IF name = "addTube" THEN created + 1 ELSE created
    /\ steps' = steps + 1

\* ------------------------------------------------------------------ state
St ==
    [tubes |-> tubes, selectedTube |-> selectedTube,
     history |-> history, historyIndex |-> historyIndex]

Init ==
    /\ tubes = << >>
    /\ selectedTube = None
    /\ draggedTubeRef = None
    /\ history = << >>
    /\ historyIndex = -1
    /\ created = 0
    /\ steps = 0
    /\ lastOp = Op("mount", << >>)
    /\ session = NoSession

\* ------------------------------------------------------------- operations
\* undo with the test `historyIndex >= 0`: at the first entry it empties the
\* assembly and moves the cursor to -1.
undoPastFirst(s) ==
    IF s.historyIndex > 0
      THEN [s EXCEPT
              !.tubes = SelectionEffect(restoreState(s.history, s.historyIndex),
                                        s.selectedTube),
              !.historyIndex = s.historyIndex - 1]
      ELSE IF s.historyIndex = 0
        THEN [s EXCEPT !.tubes = << >>, !.historyIndex = -1]
        ELSE s

undo(s) ==
    IF s.historyIndex > 0
      THEN [s EXCEPT
              !.tubes = SelectionEffect(restoreState(s.history, s.historyIndex),
                                        s.selectedTube),
              !.historyIndex = s.historyIndex - 1]
      ELSE s

\* redo restoring history[historyIndex], the entry at the cursor, instead of
\* history[historyIndex + 1].
redoCurrentEntry(s) ==
    IF s.historyIndex < Len(s.history) - 1
      THEN [s EXCEPT
              !.tubes = SelectionEffect(restoreState(s.history, s.historyIndex + 1),
                                        s.selectedTube),
              !.historyIndex = s.historyIndex + 1]
      ELSE s

redo(s) ==
    IF s.historyIndex < Len(s.history) - 1
      THEN [s EXCEPT
              !.tubes = SelectionEffect(restoreState(s.history, s.historyIndex + 2),
                                        s.selectedTube),
              !.historyIndex = s.historyIndex + 1]
      ELSE s

Undo ==
    /\ steps < MaxOps
    /\ tubes' = undo(St).tubes
    /\ historyIndex' = undo(St).historyIndex
    /\ UNCHANGED <<selectedTube, draggedTubeRef, history>>
    /\ Ghost("undo", << >>)

Redo ==
    /\ steps < MaxOps
    /\ tubes' = redo(St).tubes
    /\ historyIndex' = redo(St).historyIndex
    /\ UNCHANGED <<selectedTube, draggedTubeRef, history>>
    /\ Ghost("redo", << >>)

\* The pose with the joint angle added to the rotation x, the pitch, instead
\* of the yaw.
placeNextPitch(ts, length, finalAngle) ==
    IF Len(ts) > 0
      THEN LET lastTube == ts[Len(ts)]
               jointPosition ==
                   VecAdd(applyEuler(lastTube.length, lastTube.rotation),
                          lastTube.position)
               rotation == <<lastTube.rotation[1] + finalAngle,
                             lastTube.rotation[2],
                             lastTube.rotation[3]>>
               offsetFromJoint == applyEuler(length, rotation)
           IN  [position |-> VecAdd(jointPosition, offsetFromJoint),
                rotation |-> rotation]
      ELSE [position |-> Origin, rotation |-> Origin]

\* The pose with the joint point taken half a length in front of the origin,
\* where a first tube is created, not in front of the last tube's position.
placeNextFromOrigin(ts, length, finalAngle) ==
    IF Len(ts) > 0
      THEN LET lastTube == ts[Len(ts)]
               jointPosition == applyEuler(lastTube.length, lastTube.rotation)
               rotation == <<lastTube.rotation[1],
                             lastTube.rotation[2] + finalAngle,
                             lastTube.rotation[3]>>
               offsetFromJoint == applyEuler(length, rotation)
           IN  [position |-> VecAdd(jointPosition, offsetFromJoint),
                rotation |-> rotation]
      ELSE [position |-> Origin, rotation |-> Origin]

\* The pose with the yaw set to the joint angle instead of the last tube's yaw
\* plus the joint angle.
placeNextAbsoluteYaw(ts, length, finalAngle) ==
    IF Len(ts) > 0
      THEN LET lastTube == ts[Len(ts)]
               jointPosition ==
                   VecAdd(applyEuler(lastTube.length, lastTube.rotation),
                          lastTube.position)
               rotation == <<lastTube.rotation[1], finalAngle,
                             lastTube.rotation[3]>>
               offsetFromJoint == applyEuler(length, rotation)
           IN  [position |-> VecAdd(jointPosition, offsetFromJoint),
                rotation |-> rotation]
      ELSE [position |-> Origin, rotation |-> Origin]

\* The pose with the new tube centred on the joint point: the end face
\* centre of the last tube becomes the centre of the new one.
placeNextCentreAtJoint(ts, length, finalAngle) ==
    IF Len(ts) > 0
      THEN LET lastTube == ts[Len(ts)]
               offset == applyEuler(lastTube.length, lastTube.rotation)
           IN  [position |-> VecAdd(lastTube.position, offset),
                rotation |-> <<lastTube.rotation[1],
                               lastTube.rotation[2] + finalAngle,
                               lastTube.rotation[3]>>]
      ELSE [position |-> Origin, rotation |-> Origin]

\* The pose with the joint angle applied to the first tube as well.
placeNextFirstTurned(ts, length, finalAngle) ==
    IF Len(ts) > 0
      THEN LET lastTube == ts[Len(ts)]
               jointPosition ==
                   VecAdd(applyEuler(lastTube.length, lastTube.rotation),
                          lastTube.position)
               rotation == <<lastTube.rotation[1],
                             lastTube.rotation[2] + finalAngle,
                             lastTube.rotation[3]>>
               offsetFromJoint == applyEuler(length, rotation)
           IN  [position |-> VecAdd(jointPosition, offsetFromJoint),
                rotation |-> rotation]
      ELSE [position |-> Origin, rotation |-> <<0, finalAngle, 0>>]

\* The pose addTube gives the new tube.
placeNext(ts, length, finalAngle) ==
    IF Len(ts) > 0
      THEN LET lastTube == ts[Len(ts)]
               jointPosition ==
                   VecAdd(applyEuler(lastTube.length, lastTube.rotation),
                          lastTube.position)
               rotation == <<lastTube.rotation[1],
                             lastTube.rotation[2] + finalAngle,
                             lastTube.rotation[3]>>
               offsetFromJoint == applyEuler(length, rotation)
           IN  [position |-> VecAdd(jointPosition, offsetFromJoint),
                rotation |-> rotation]
      ELSE [position |-> Origin, rotation |-> Origin]

\* addTube passing `height` as the second constructor argument whatever the
\* tube type is.
addTubeHeightAsTyped(s, tubeType, width, height, thickness, length, angle, snapToAngle, id) ==
    LET finalAngle == IF snapToAngle THEN snapAngleFunc(snapToAngle, angle)
                      ELSE angle
        pose == placeNext(s.tubes, length, finalAngle)
        newTube == Tube(width, height, thickness, length, pose.position,
                        pose.rotation, id)
        newTubesList == Append(s.tubes, newTube)
        h == addToHistory(s.history, s.historyIndex, newTubesList)
    IN  [s EXCEPT
           !.tubes = SelectionEffect(newTubesList, s.selectedTube),
           !.history = h.history,
           !.historyIndex = h.historyIndex]

\* addTube with newTubesList = [newTube, ...tubes]: the new tube goes in front.
addTubeInFront(s, tubeType, width, height, thickness, length, angle, snapToAngle, id) ==
    LET finalAngle == IF snapToAngle THEN snapAngleFunc(snapToAngle, angle)
                      ELSE angle
        pose == placeNext(s.tubes, length, finalAngle)
        newTube == Tube(IF tubeType = "square" THEN width ELSE width,
                        IF tubeType = "square" THEN width ELSE height,
                        thickness, length, pose.position, pose.rotation, id)
        newTubesList == <<newTube>> \o s.tubes
        h == addToHistory(s.history, s.historyIndex, newTubesList)
    IN  [s EXCEPT
           !.tubes = SelectionEffect(newTubesList, s.selectedTube),
           !.history = h.history,
           !.historyIndex = h.historyIndex]

addTube(s, tubeType, width, height, thickness, length, angle, snapToAngle, id) ==
    LET finalAngle == IF snapToAngle THEN snapAngleFunc(snapToAngle, angle)
                      ELSE angle
        pose == placeNext(s.tubes, length, finalAngle)
        newTube == Tube(IF tubeType = "square" THEN width ELSE width,
                        IF tubeType = "square" THEN width ELSE height,
                        thickness, length, pose.position, pose.rotation, id)
        newTubesList == Append(s.tubes, newTube)
        h == addToHistory(s.history, s.historyIndex, newTubesList)
    IN  [s EXCEPT
           !.tubes = SelectionEffect(newTubesList, s.selectedTube),
           !.history = h.history,
           !.historyIndex = h.historyIndex]

AddTube ==
    /\ steps < MaxOps
    /\ \E tubeType \in TubeTypes, width \in Widths, height \in Heights,
          thickness \in Thicknesses, length \in Lengths, angle \in Angles,
          snapToAngle \in BOOLEAN, id \in Ids :
         LET r == addTube(St, tubeType, width, height, thickness, length,
                          angle, snapToAngle, id)
         IN  /\ tubes' = r.tubes
             /\ history' = r.history
             /\ historyIndex' = r.historyIndex
             /\ UNCHANGED <<selectedTube, draggedTubeRef>>
             /\ Ghost("addTube", <<id>>)

\* The add button pressed with the panel inputs set to any of the given values;
\* the inputs are kept in lastOp.
AddTubeFrom(types, widths, heights, thicks, lengths, angles, snaps, ids, maxOps) ==
    /\ steps < maxOps
    /\ \E tubeType \in types, width \in widths, height \in heights,
          thickness \in thicks, length \in lengths, angle \in angles,
          snapToAngle \in snaps, id \in ids :
         LET r == addTube(St, tubeType, width, height, thickness, length,
                          angle, snapToAngle, id)
         IN  /\ tubes' = r.tubes
             /\ history' = r.history
             /\ historyIndex' = r.historyIndex
             /\ UNCHANGED <<selectedTube, draggedTubeRef>>
             /\ Ghost("addTube", <<id, tubeType, width, height, thickness,
                                   length, angle, snapToAngle>>)

AddTubeDimensions ==
    AddTubeFrom(PanelTubeTypes, Widths, Heights, PanelThicknesses,
                Lengths, Angles, {TRUE}, FreshIds, MaxDimOps)

AddTubeAngles ==
    AddTubeFrom(TubeTypes, Widths, Heights, Thicknesses, Lengths,
                PanelAngles, BOOLEAN, FreshIds, MaxAngleOps)

\* removeTube without `if (selectedTube === tubeId) setSelectedTube(null)`.
removeTubeKeepSelection(s, tubeId) ==
    LET keep(t) == t.id # tubeId
        filteredTubes == SelectSeq(s.tubes, keep)
        h == addToHistory(s.history, s.historyIndex, filteredTubes)
    IN  IF \E k \in 1 .. Len(s.tubes) : s.tubes[k].id = tubeId
          THEN [tubes |-> SelectionEffect(filteredTubes, s.selectedTube),
                selectedTube |-> s.selectedTube,
                history |-> h.history,
                historyIndex |-> h.historyIndex]
          ELSE s

removeTube(s, tubeId) ==
    LET keep(t) == t.id # tubeId
        filteredTubes == SelectSeq(s.tubes, keep)
        h == addToHistory(s.history, s.historyIndex, filteredTubes)
    IN  IF \E k \in 1 .. Len(s.tubes) : s.tubes[k].id = tubeId
          THEN LET sel == IF s.selectedTube = tubeId THEN None
                          ELSE s.selectedTube
               IN  [tubes |-> SelectionEffect(filteredTubes, sel),
                    selectedTube |-> sel,
                    history |-> h.history,
                    historyIndex |-> h.historyIndex]
          ELSE s

RemoveTube ==
    \E tubeId \in Ids :
      /\ steps < MaxOps
      /\ LET r == removeTube(St, tubeId)
         IN  /\ tubes' = r.tubes
             /\ selectedTube' = r.selectedTube
             /\ history' = r.history
             /\ historyIndex' = r.historyIndex
             /\ UNCHANGED draggedTubeRef
             /\ Ghost("removeTube", <<tubeId>>)

\* clearAll recording the empty assembly as one more entry instead of
\* resetting the history.
ClearAllPushEntry ==
    /\ steps < MaxOps
    /\ tubes' = << >>
    /\ selectedTube' = None
    /\ history' = addToHistory(history, historyIndex, << >>).history
    /\ historyIndex' = addToHistory(history, historyIndex, << >>).historyIndex
    /\ UNCHANGED draggedTubeRef
    /\ Ghost("clearAll", << >>)

ClearAll ==
    /\ steps < MaxOps
    /\ tubes' = << >>
    /\ selectedTube' = None
    /\ history' = << >>
    /\ historyIndex' = -1
    /\ UNCHANGED draggedTubeRef
    /\ Ghost("clearAll", << >>)

\* exportData: the array that is serialised into the download, one record per
\* tube in order.  `type` is the tube type the panel shows at the time of the
\* export.
exportData(ts, tubeType) ==
    [k \in 1 .. Len(ts) |->
        [type |-> tubeType, width |-> ts[k].width, height |-> ts[k].height,
         thickness |-> ts[k].thickness, length |-> ts[k].length,
         position |-> [x |-> ts[k].position[1], y |-> ts[k].position[2],
                       z |-> ts[k].position[3]],
         rotation |-> [x |-> ts[k].rotation[1], y |-> ts[k].rotation[2],
                       z |-> ts[k].rotation[3]]]]

\* The export button (disabled while the assembly is empty) pressed with the
\* type select at one of the given values; the exported array is kept in
\* lastOp.
\* exportData followed by setSelectedTube(null).
ExportFromDeselects(types) ==
    /\ steps < MaxOps
    /\ Len(tubes) > 0
    /\ \E tubeType \in types :
         /\ selectedTube' = None
         /\ tubes' = SelectionEffect(tubes, None)
         /\ UNCHANGED <<draggedTubeRef, history, historyIndex>>
         /\ Ghost("exportData", exportData(tubes, tubeType))

ExportFrom(types) ==
    /\ steps < MaxOps
    /\ Len(tubes) > 0
    /\ \E tubeType \in types :
         /\ UNCHANGED <<tubes, selectedTube, draggedTubeRef, history,
                        historyIndex>>
         /\ Ghost("exportData", exportData(tubes, tubeType))

ExportData == ExportFrom(TubeTypes)

ExportDataTypes == ExportFrom(PanelTubeTypes)

\* ------------------------------------------------------- pointer handlers
\* Left button without shift.  hit is the tube whose mesh the pointer ray
\* meets first (intersects[0]), or 0 when it meets none.
OnMouseDown ==
    \E hit \in 0 .. Len(tubes) :
      /\ steps < MaxOps
      /\ IF hit > 0
        THEN LET tubeId == tubes[hit].id
             IN  /\ selectedTube' = tubeId
                 /\ draggedTubeRef' = tubeId
                 /\ tubes' = SelectionEffect(tubes, tubeId)
                 /\ UNCHANGED <<history, historyIndex>>
                 /\ lastOp' = Op("onMouseDown", <<tubeId>>)
                 /\ session' = [phase |-> "dragging", tubes |-> FieldsOf(tubes),
                                history |-> history,
                                historyIndex |-> historyIndex,
                                released |-> << >>]
                 /\ UNCHANGED created
                 /\ steps' = steps + 1
        ELSE /\ selectedTube' = None
             /\ tubes' = SelectionEffect(tubes, None)
             /\ UNCHANGED <<draggedTubeRef, history, historyIndex>>
             /\ Ghost("onMouseDown", << >>)

\* Click on a row of the tube list: setSelectedTube(tube.id).
SelectTube ==
    \E k \in 1 .. Len(tubes) :
      /\ steps < MaxOps
      /\ selectedTube' = tubes[k].id
      /\ tubes' = SelectionEffect(tubes, tubes[k].id)
      /\ UNCHANGED <<draggedTubeRef, history, historyIndex>>
      /\ Ghost("selectTube", <<tubes[k].id>>)

\* intersectPlane on a plane 10 mm above the floor: the point the ray meets
\* has y = 10.
intersectPlaneRaised(target, hit) ==
    IF hit = NoHit THEN target ELSE <<hit[1], 10000, hit[3]>>

\* ray.intersectPlane(plane, target): writes the intersection point to target
\* and returns it, or returns null and leaves target as it is.  hit is the
\* point of the plane y = 0 the ray meets, or NoHit.
intersectPlane(target, hit) == IF hit = NoHit THEN target ELSE hit

\* prevTubes.map(...): tube.position.copy(intersection) on the dragged tube.
moveTubes(ts, dragged, intersection) ==
    [k \in 1 .. Len(ts) |->
        IF ts[k].id = dragged THEN [ts[k] EXCEPT !.position = intersection]
        ELSE ts[k]]

\* What tube.position.copy(intersection) does to the history: the position
\* object of entry e, slot k is written when the dragged tube holds it.
moveShared(h, ts, dragged, intersection) ==
    [e \in 1 .. Len(h) |->
        [k \in 1 .. Len(h[e]) |->
            IF \E j \in 1 .. Len(ts) :
                 ts[j].id = dragged /\ ts[j].shared = <<e, k>>
              THEN [h[e][k] EXCEPT !.position = intersection]
              ELSE h[e][k]]]

\* onMouseMove calling addToHistory(newTubes) after each update.
OnMouseMoveRecords ==
    \E hit \in DragPoints \cup {NoHit} :
      /\ steps < MaxOps
      /\ IF draggedTubeRef # None
           THEN LET intersection == intersectPlane(Origin, hit)
                    newTubes == SelectionEffect(
                                  moveTubes(tubes, draggedTubeRef, intersection),
                                  selectedTube)
                    h == addToHistory(
                           moveShared(history, tubes, draggedTubeRef, intersection),
                           historyIndex, newTubes)
                IN  /\ tubes' = Detach(newTubes, historyIndex)
                    /\ history' = h.history
                    /\ historyIndex' = h.historyIndex
           ELSE UNCHANGED <<tubes, history, historyIndex>>
      /\ UNCHANGED <<selectedTube, draggedTubeRef>>
      /\ Ghost("onMouseMove", hit)

OnMouseMove ==
    \E hit \in DragPoints \cup {NoHit} :
      /\ steps < MaxOps
      /\ IF draggedTubeRef # None
           THEN \* `intersection` is the target vector, created as (0, 0, 0);
                \* the test `if (intersection)` is on the object and is true.
                LET intersection == intersectPlane(Origin, hit)
                IN  /\ tubes' = SelectionEffect(
                                  moveTubes(tubes, draggedTubeRef, intersection),
                                  selectedTube)
                    /\ history' = moveShared(history, tubes, draggedTubeRef,
                                             intersection)
           ELSE UNCHANGED <<tubes, history>>
      /\ UNCHANGED <<selectedTube, draggedTubeRef, historyIndex>>
      /\ Ghost("onMouseMove", hit)

\* onMouseUp without the call of addToHistory: a release records nothing.
OnMouseUpNoRecord ==
    /\ steps < MaxOps
    /\ draggedTubeRef' = None
    /\ UNCHANGED <<tubes, selectedTube, history, historyIndex>>
    /\ Ghost("onMouseUp", << >>)

\* onMouseUp without `draggedTubeRef.current = null`.
OnMouseUpKeepsDrag ==
    /\ steps < MaxOps
    /\ IF draggedTubeRef # None
         THEN LET h == addToHistory(mountHistory, mountHistoryIndex, tubes)
              IN  /\ history' = h.history
                  /\ historyIndex' = h.historyIndex
                  /\ tubes' = Detach(tubes, mountHistoryIndex)
         ELSE UNCHANGED <<tubes, history, historyIndex>>
    /\ UNCHANGED <<selectedTube, draggedTubeRef>>
    /\ Ghost("onMouseUp", << >>)

\* onMouseUp is created by the mount effect and calls the addToHistory of the
\* first render, whose history is [] and whose historyIndex is -1.
OnMouseUp ==
    /\ steps < MaxOps
    /\ IF draggedTubeRef # None
         THEN LET h == addToHistory(mountHistory, mountHistoryIndex, tubes)
              IN  /\ history' = h.history
                  /\ historyIndex' = h.historyIndex
                  /\ tubes' = Detach(tubes, mountHistoryIndex)
         ELSE UNCHANGED <<tubes, history, historyIndex>>
    /\ draggedTubeRef' = None
    /\ UNCHANGED selectedTube
    /\ Ghost("onMouseUp", << >>)

\* --------------------------------------------------------- specification
Next ==
    \/ AddTube
    \/ RemoveTube
    \/ ClearAll
    \/ Undo
    \/ Redo
    \/ SelectTube
    \/ OnMouseDown
    \/ OnMouseMove
    \/ OnMouseUp
    \/ ExportData

Spec == Init /\ [][Next]_vars

\* The edit operations with the dimension inputs and the type select operated.
DimensionNext ==
    \/ AddTubeDimensions
    \/ RemoveTube
    \/ ClearAll
    \/ Undo
    \/ Redo
    \/ ExportDataTypes

DimensionSpec == Init /\ [][DimensionNext]_vars

\* Adds with the angle slider and the snap checkbox operated.
AngleNext ==
    \/ AddTubeAngles
    \/ ClearAll

AngleSpec == Init /\ [][AngleNext]_vars

\* ----------------------------------------------------------- model sanity
\* A shared position names an existing history slot holding the same value.
SharedValid ==
    \A k \in 1 .. Len(tubes) :
      tubes[k].shared # NoRef =>
        /\ tubes[k].shared[1] <= historyIndex + 1
        /\ tubes[k].shared[2] <= Len(history[tubes[k].shared[1]])
        /\ history[tubes[k].shared[1]][tubes[k].shared[2]].position
             = tubes[k].position

\* ------------------------------------------------------------ round trip
RECURSIVE undoN(_, _)
undoN(s, n) == IF n = 0 THEN s ELSE undoN(undo(s), n - 1)

RECURSIVE redoN(_, _)
redoN(s, n) == IF n = 0 THEN s ELSE redoN(redo(s), n - 1)

\* The number of undo() calls that have an effect, starting from s.
RECURSIVE EffectiveUndos(_)
EffectiveUndos(s) == IF undo(s) = s THEN 0 ELSE 1 + EffectiveUndos(undo(s))

RoundTrip(s) == redoN(undoN(s, EffectiveUndos(s)), EffectiveUndos(s))

\* The history entries compared on their stored fields.
HistoryFields == [e \in 1 .. Len(history) |-> FieldsOf(history[e])]

Positions(ts) == [k \in 1 .. Len(ts) |-> ts[k].position]

Present(ts, tubeId) == \E k \in 1 .. Len(ts) : ts[k].id = tubeId

\* Math.random can draw an id twice.  The statements below that the code
\* violates are stated for the runs in which it does not, so that a violation
\* never rests on two tubes sharing an id.
DistinctIds(ts) ==
    \A j, k \in 1 .. Len(ts) : j # k => ts[j].id # ts[k].id

NoIdClash ==
    /\ DistinctIds(tubes)
    /\ \A e \in 1 .. Len(history) : DistinctIds(history[e])

\* ----------------------------------------------------------------- claims

\* C1: a drag session (press on a tube, any number of moves, release) adds
\* exactly one history entry: after the release the history is the entries
\* 0..cursor as they were before the drag, followed by one entry holding the
\* post-drag assembly, and the cursor points at that entry.
C1_DragPushesOneEntry ==
    (lastOp.name = "onMouseUp" /\ session.phase = "released" /\ NoIdClash) =>
        /\ historyIndex = session.historyIndex + 1
        /\ Len(history) = session.historyIndex + 2
        /\ SubSeq(history, 1, session.historyIndex + 1)
             = SubSeq(session.history, 1, session.historyIndex + 1)
        /\ FieldsOf(history[Len(history)]) = FieldsOf(tubes)

\* C2: a drag is one undo step: with a non-empty history before the drag, one
\* undo() after the release puts every tube back at its pre-drag position, and
\* a following redo() brings back the dragged positions.
C2_DragIsOneUndoStep ==
    /\ (session.phase = "undone" /\ Len(session.history) > 0 /\ NoIdClash) =>
           Positions(tubes) = Positions(session.tubes)
    /\ (session.phase = "redone" /\ Len(session.history) > 0 /\ NoIdClash) =>
           Positions(tubes) = Positions(session.released)

\* C3: every add is reversible: an undo() issued right after an addTube leaves
\* the assembly as it was before that add (the add appends one tube, so that
\* is the assembly without its last tube), the first add into an empty
\* assembly with an empty history included.
C3_UndoRevertsAdd ==
    [][(lastOp.name = "addTube" /\ lastOp'.name = "undo" /\ NoIdClash) =>
          FieldsOf(tubes') = FieldsOf(SubSeq(tubes, 1, Len(tubes) - 1))]_vars

\* C4: history entries are independent of the live assembly: a pointer press,
\* a pointer move, an undo or a redo changes no field stored in any entry, and
\* an add or a remove changes no field of the entries 0..cursor it keeps.
C4_EntriesNeverChange ==
    [][/\ (lastOp'.name \in {"onMouseDown", "onMouseMove", "undo", "redo"}
             /\ NoIdClash) =>
            HistoryFields' = HistoryFields
       /\ (lastOp'.name \in {"addTube", "removeTube"} /\ NoIdClash) =>
            \A e \in 1 .. historyIndex + 1 :
                FieldsOf(history'[e]) = FieldsOf(history[e])]_vars

\* C5: during a drag, a pointer move whose ray does not meet the reference
\* plane updates nothing: every tube has the same pose after it as before.
C5_NoIntersectionNoUpdate ==
    [][(draggedTubeRef # None /\ NoIdClash /\ lastOp'.name = "onMouseMove"
          /\ lastOp'.arg = NoHit) =>
          FieldsOf(tubes') = FieldsOf(tubes)]_vars

\* C6: undo/redo round trip: with no drag in progress, undo() until it has no
\* effect (n effective undos) and then redo() n times leaves the assembly
\* equal to the one before the first undo, field for field and in order.
C6_UndoRedoRoundTrip ==
    draggedTubeRef = None =>
        FieldsOf(RoundTrip(St).tubes) = FieldsOf(tubes)

C6_Witness ==
    /\ draggedTubeRef = None
    /\ EffectiveUndos(St) >= 2
    /\ Len(tubes) >= 1
    /\ FieldsOf(undoN(St, EffectiveUndos(St)).tubes) # FieldsOf(tubes)

\* C7: the cursor is a valid index into the history, or -1 exactly when the
\* history is empty.
C7_CursorValid ==
    /\ -1 <= historyIndex
    /\ historyIndex < Len(history)
    /\ (historyIndex = -1) <=> (Len(history) = 0)

C7_Witness ==
    /\ lastOp.name = "undo"
    /\ historyIndex = 0
    /\ Len(history) = 3

\* C8: record() issued by addTube, or by removeTube of a tube that is present,
\* with the cursor at c truncates and appends: the history then has length
\* c + 2, the entries 0..c are the entries as before, nothing is left after
\* the new entry (redo() has no effect), the new last entry equals the
\* assembly that was recorded, and the cursor is c + 1.
C8_RecordTruncatesAndAppends ==
    [][(\/ lastOp'.name = "addTube"
        \/ (lastOp'.name = "removeTube" /\ Present(tubes, lastOp'.arg[1]))) =>
          /\ Len(history') = historyIndex + 2
          /\ historyIndex' = historyIndex + 1
          /\ SubSeq(history', 1, historyIndex + 1)
               = SubSeq(history, 1, historyIndex + 1)
          /\ FieldsOf(history'[historyIndex + 2]) = FieldsOf(tubes')
          /\ redo(St') = St']_vars

C8_Witness ==
    /\ lastOp.name = "removeTube"
    /\ created = 2
    /\ historyIndex = 1
    /\ Len(history) = 2
    /\ Len(history[1]) = 1
    /\ Len(tubes) = 0

\* C9: undo() with cursor > 0 moves the cursor back by one and makes the
\* assembly equal, field for field with the ids kept, to the entry now at the
\* cursor; redo() with cursor < last index moves it forward by one and does
\* the same; neither changes the history.
C9_UndoRedoRestoreEntry ==
    [][/\ (lastOp'.name = "undo" /\ historyIndex > 0) =>
            /\ historyIndex' = historyIndex - 1
            /\ FieldsOf(tubes') = FieldsOf(history'[historyIndex' + 1])
            /\ history' = history
       /\ (lastOp'.name = "redo" /\ historyIndex < Len(history) - 1) =>
            /\ historyIndex' = historyIndex + 1
            /\ FieldsOf(tubes') = FieldsOf(history'[historyIndex' + 1])
            /\ history' = history]_vars

C9_Witness ==
    /\ lastOp.name = "redo"
    /\ historyIndex = 1
    /\ Len(history) = 3
    /\ Len(tubes) >= 1
    /\ \A k \in 1 .. Len(tubes) : tubes[k].shared = <<historyIndex + 1, k>>

\* C10: history bounds are no-ops: undo() with the cursor at 0 or an empty
\* history, and redo() with the cursor at the last index or an empty history,
\* leave the assembly, the selection, the history and the cursor unchanged.
C10_BoundsAreNoOps ==
    [][/\ (lastOp'.name = "undo" /\ historyIndex <= 0) =>
            UNCHANGED <<tubes, selectedTube, history, historyIndex>>
       /\ (lastOp'.name = "redo" /\ historyIndex >= Len(history) - 1) =>
            UNCHANGED <<tubes, selectedTube, history, historyIndex>>]_vars

C10_Witness ==
    /\ lastOp.name = "undo"
    /\ historyIndex = 0
    /\ Len(history) = 1
    /\ Len(tubes) = 1
    /\ tubes[1].shared = NoRef

\* C11: clearAll() from any state leaves the assembly empty, the selection
\* none, the history empty and the cursor -1 (no entry is pushed), and an
\* undo() or a redo() issued right after it changes nothing.
C11_ClearAllResets ==
    [][/\ lastOp'.name = "clearAll" =>
            /\ tubes' = << >>
            /\ selectedTube' = None
            /\ history' = << >>
            /\ historyIndex' = -1
            /\ undo(St') = St'
            /\ redo(St') = St'
       /\ (lastOp.name = "clearAll" /\ lastOp'.name \in {"undo", "redo"}) =>
            UNCHANGED <<tubes, selectedTube, history, historyIndex>>]_vars

\* clearAll is the fourth event of a run in which two tubes were added.
C11_Witness ==
    /\ lastOp.name = "clearAll"
    /\ created = 2
    /\ steps = 4
    /\ tubes = << >>
    /\ history = << >>

\* The isSelected flags of a tube list, in order.
SelectedFlags(ts) == [k \in 1 .. Len(ts) |-> ts[k].isSelected]

\* C12: an undo() or a redo() that restores an entry replaces the selection
\* with the recorded one: after it the isSelected flags of the live tubes are
\* the flags stored in the restored entry, not those of the selection that
\* was active before.
C12_RestoreReplacesSelection ==
    [][(/\ NoIdClash
        /\ \/ (lastOp'.name = "undo" /\ historyIndex > 0)
           \/ (lastOp'.name = "redo" /\ historyIndex < Len(history) - 1)) =>
          SelectedFlags(tubes') = SelectedFlags(history'[historyIndex' + 1])]_vars

\* The inputs of the addTube that lastOp records.
OpInput(op) ==
    [id |-> op.arg[1], tubeType |-> op.arg[2], width |-> op.arg[3],
     height |-> op.arg[4], thickness |-> op.arg[5], length |-> op.arg[6],
     angle |-> op.arg[7], snapToAngle |-> op.arg[8]]

ValidDimensions(width, height, thickness, length) ==
    /\ width > 0
    /\ height > 0
    /\ thickness > 0
    /\ length > 0
    /\ 2 * thickness < width
    /\ 2 * thickness < height

AllValid(ts) ==
    \A k \in 1 .. Len(ts) :
      ValidDimensions(ts[k].width, ts[k].height, ts[k].thickness, ts[k].length)

\* C13: invalid dimensions never enter the assembly: every tube of the live
\* assembly and of every history entry has width, height, thickness and
\* length > 0 and thickness < min(width, height) / 2, and an addTube whose
\* parameters violate this adds no tube.
C13_InvalidDimensionsRejected ==
    [][NoIdClash' =>
         /\ AllValid(tubes')
         /\ \A e \in 1 .. Len(history') : AllValid(history'[e])
         /\ (/\ lastOp'.name = "addTube"
             /\ ~ValidDimensions(
                    OpInput(lastOp').width,
                    IF OpInput(lastOp').tubeType = "square"
                      THEN OpInput(lastOp').width ELSE OpInput(lastOp').height,
                    OpInput(lastOp').thickness, OpInput(lastOp').length)) =>
               tubes' = tubes]_vars

\* C14: at most one tube of the live assembly has isSelected = true, after
\* any sequence of select, add, remove, clear, undo, redo and drag events.
C14_AtMostOneSelected ==
    Cardinality({k \in 1 .. Len(tubes) : tubes[k].isSelected}) <= 1

IdsOf(ts) == {ts[k].id : k \in 1 .. Len(ts)}

\* The ids of the tubes created earlier that the program still holds.
HeldIds == IdsOf(tubes) \cup UNION {IdsOf(history[e]) : e \in 1 .. Len(history)}

IdSeq(ts) == [k \in 1 .. Len(ts) |-> ts[k].id]

\* C15: ids are unique and never reused: no two tubes of the live assembly
\* have the same id, the id addTube gives the new tube differs from the id of
\* every tube created earlier (those still in the assembly or in a history
\* entry among them), and no operation changes the id of an existing tube
\* (an add, a selection, a press, a move or a release leaves the ids of the
\* tubes in place as they were).
C15_IdsUniqueNeverReused ==
    [][/\ DistinctIds(tubes')
       /\ lastOp'.name = "addTube" => lastOp'.arg[1] \notin HeldIds
       /\ lastOp'.name \in {"addTube", "selectTube", "onMouseDown",
                            "onMouseMove", "onMouseUp"} =>
            SubSeq(IdSeq(tubes'), 1, Len(tubes)) = IdSeq(tubes)]_vars

Pose(t) == [position |-> t.position, rotation |-> t.rotation]

\* The pose of the tube that the addTube recorded in op gives, from the
\* current state, when its angle input is angle and its snap input is snap.
PoseWithAngle(op, angle, snap) ==
    LET in == OpInput(op)
        r == addTube(St, in.tubeType, in.width, in.height, in.thickness,
                     in.length, angle, snap, in.id)
    IN  Pose(r.tubes[Len(r.tubes)])

\* C16 as stated: with snap on, an addTube with angle 37 gives the new tube
\* the pose an addTube with angle 45 gives it, and one with angle 15 the pose
\* of angle 0 or of angle 30.
C16_Snap37Is45 ==
    [][(lastOp'.name = "addTube" /\ OpInput(lastOp').snapToAngle) =>
          /\ OpInput(lastOp').angle = 37 =>
                Pose(tubes'[Len(tubes')]) = PoseWithAngle(lastOp', 45, TRUE)
          /\ OpInput(lastOp').angle = 15 =>
                Pose(tubes'[Len(tubes')])
                  \in {PoseWithAngle(lastOp', 0, TRUE),
                       PoseWithAngle(lastOp', 30, TRUE)}]_vars

\* C16 amended: with snap on, an addTube with angle 37 gives the new tube the
\* pose an addTube with angle 30 gives it (30 is the nearest snap angle), and
\* one with angle 15 the pose of angle 0 (the tie between 0 and 30 goes to
\* the smaller); these are the poses of a joint of 30 and of 0 degrees, the
\* ones the same add gives with snap off.
C16_Snap37Is30 ==
    [][(lastOp'.name = "addTube" /\ OpInput(lastOp').snapToAngle) =>
          /\ OpInput(lastOp').angle = 37 =>
                /\ Pose(tubes'[Len(tubes')]) = PoseWithAngle(lastOp', 30, TRUE)
                /\ Pose(tubes'[Len(tubes')]) = PoseWithAngle(lastOp', 30, FALSE)
          /\ OpInput(lastOp').angle = 15 =>
                /\ Pose(tubes'[Len(tubes')]) = PoseWithAngle(lastOp', 0, TRUE)
                /\ Pose(tubes'[Len(tubes')]) = PoseWithAngle(lastOp', 0, FALSE)]_vars

\* A second tube added with snap on and angle 37: its yaw is 30.
C16_Witness ==
    /\ lastOp.name = "addTube"
    /\ OpInput(lastOp).snapToAngle
    /\ OpInput(lastOp).angle = 37
    /\ Len(tubes) = 2
    /\ tubes[2].rotation = <<0, 30, 0>>
    /\ tubes[2].position = <<25000, 0, 93300>>

\* The snap set as the claim C17 lists it.
ListedSnapSet == {0, 30, 45, 60, 90, 120, 135, 150, 180}

\* The joint angle an addTube onto a non-empty assembly has used: the yaw of
\* the new tube minus the yaw of the tube it is joined to.
AngleUsed == tubes'[Len(tubes')].rotation[2] - tubes[Len(tubes)].rotation[2]

\* C17: with snap on, for every input angle of the slider (0 .. 180) the
\* angle used for the joint is the member of the listed set with the smallest
\* absolute difference from the input, the smaller member on an exact tie
\* (15 -> 0), and an input that is in the set is used as it is; with snap
\* off the input angle is used unchanged.
C17_SnapNearestLowerOnTie ==
    [][(lastOp'.name = "addTube" /\ Len(tubes) > 0) =>
          LET a == OpInput(lastOp').angle
          IN  IF OpInput(lastOp').snapToAngle
                THEN /\ AngleUsed \in ListedSnapSet
                     /\ \A m \in ListedSnapSet :
                          \/ Abs(AngleUsed - a) < Abs(m - a)
                          \/ Abs(AngleUsed - a) = Abs(m - a) /\ AngleUsed <= m
                     /\ a \in ListedSnapSet => AngleUsed = a
                ELSE AngleUsed = a]_vars

\* A second tube added with snap on and angle 75, the tie between 60 and 90:
\* its yaw is 60.
C17_Witness ==
    /\ lastOp.name = "addTube"
    /\ OpInput(lastOp).snapToAngle
    /\ OpInput(lastOp).angle = 75
    /\ Len(tubes) = 2
    /\ tubes[1].rotation[2] = 0
    /\ tubes[2].rotation[2] = 60

\* C18: onto an empty assembly addTube places the new tube at position
\* (0, 0, 0) with rotation (0, 0, 0), whatever the angle input and the snap
\* setting are.
C18_FirstTubeAtOrigin ==
    [][(lastOp'.name = "addTube" /\ Len(tubes) = 0) =>
          /\ Len(tubes') = 1
          /\ tubes'[1].position = <<0, 0, 0>>
          /\ tubes'[1].rotation = <<0, 0, 0>>]_vars

\* The assembly was cleared and a tube added to it with angle 135, snap off.
C18_Witness ==
    /\ lastOp.name = "addTube"
    /\ OpInput(lastOp).angle = 135
    /\ ~OpInput(lastOp).snapToAngle
    /\ steps = 2
    /\ created = 1
    /\ Len(tubes) = 1
    /\ Pose(tubes[1]) = [position |-> Origin, rotation |-> Origin]

VecSub(a, b) == <<a[1] - b[1], a[2] - b[2], a[3] - b[3]>>

\* The centres of the two end faces of a tube with the given pose: its
\* position minus / plus half its length along its rotated forward axis.
StartFace(length, pose) ==
    VecSub(pose.position, applyEuler(length, pose.rotation))

EndFace(length, pose) ==
    VecAdd(pose.position, applyEuler(length, pose.rotation))

\* Joint angles the chain invariant is evaluated for from every assembly:
\* multiples of 90 degrees and others.
ChainAngles == {0, 15, 37, 90, 120, 180}

\* C19: chain invariant: right after an addTube onto a non-empty assembly the
\* start face centre of the new tube is the end face centre of the tube that
\* was last, whatever the pose of that tube (dragged or restored ones
\* included); and from the same assembly the pose addTube computes has this
\* property for the joint angles ChainAngles.
C19_ChainInvariant ==
    [][(lastOp'.name = "addTube" /\ Len(tubes) > 0) =>
          LET lastTube == tubes[Len(tubes)]
              newTube == tubes'[Len(tubes')]
          IN  /\ Len(tubes') = Len(tubes) + 1
              /\ StartFace(newTube.length, Pose(newTube))
                   = EndFace(lastTube.length, Pose(lastTube))
              /\ \A angle \in ChainAngles, length \in Lengths :
                   StartFace(length, placeNext(tubes, length, angle))
                     = EndFace(lastTube.length, Pose(lastTube))]_vars

\* A tube added onto a tube that was dragged to (10, 0, 20).
C19_Witness ==
    /\ lastOp.name = "addTube"
    /\ Len(tubes) = 2
    /\ Pose(tubes[1]) = [position |-> <<10000, 0, 20000>>, rotation |-> Origin]
    /\ Pose(tubes[2]) = [position |-> <<60000, 0, 70000>>,
                         rotation |-> <<0, 90, 0>>]

\* The scenario of C20: from the empty assembly, addTube twice with the panel
\* at its initial values (50 x 30 x 3 x 100, angle 90).
AfterTwoAdds == steps = 2 /\ created = 2

\* C20 as stated: after the scenario B, the second tube, is at (0, 0, 150)
\* with yaw 90.
C20_ScenarioAsStated ==
    AfterTwoAdds =>
        /\ tubes[2].position = <<0, 0, 150000>>
        /\ tubes[2].rotation[2] = 90

\* C20 amended: after the scenario A is the 50 x 30 x 3 x 100 tube at the
\* origin and B, of length 100, is at (50, 0, 50) with yaw 90.
C20_ScenarioPose ==
    AfterTwoAdds =>
        /\ Len(tubes) = 2
        /\ <<tubes[1].width, tubes[1].height, tubes[1].thickness,
             tubes[1].length>> = <<50, 30, 3, 100>>
        /\ Pose(tubes[1]) = [position |-> Origin, rotation |-> Origin]
        /\ tubes[2].length = 100
        /\ tubes[2].position = <<50000, 0, 50000>>
        /\ tubes[2].rotation = <<0, 90, 0>>

C20_Witness ==
    /\ AfterTwoAdds
    /\ lastOp.name = "addTube"
    /\ Len(tubes) = 2
    /\ EndFace(tubes[1].length, Pose(tubes[1])) = <<0, 0, 50000>>
    /\ tubes[2].position = <<50000, 0, 50000>>

\* C21: addTube always succeeds and is an append: afterwards the assembly is
\* the previous sequence, every tube with its id, dimensions and pose as
\* before and in the same order, followed by exactly one new tube built from
\* the panel parameters (with the square type the height is the width), and
\* exactly one history entry is pushed, equal to the new assembly.
C21_AddIsAppend ==
    [][lastOp'.name = "addTube" =>
          LET in == OpInput(lastOp')
              newTube == tubes'[Len(tubes')]
          IN  /\ Len(tubes') = Len(tubes) + 1
              /\ SubSeq(FieldsOf(tubes'), 1, Len(tubes)) = FieldsOf(tubes)
              /\ newTube.id = in.id
              /\ newTube.width = in.width
              /\ newTube.height
                   = (IF in.tubeType = "square" THEN in.width ELSE in.height)
              /\ newTube.thickness = in.thickness
              /\ newTube.length = in.length
              /\ historyIndex' = historyIndex + 1
              /\ Len(history') = historyIndex + 2
              /\ SubSeq(history', 1, historyIndex + 1)
                   = SubSeq(history, 1, historyIndex + 1)
              /\ FieldsOf(history'[Len(history')]) = FieldsOf(tubes')]_vars

\* A third tube, square with thickness 15, added onto two tubes.
C21_Witness ==
    /\ lastOp.name = "addTube"
    /\ OpInput(lastOp).tubeType = "square"
    /\ OpInput(lastOp).thickness = 15
    /\ created = 3
    /\ Len(tubes) = 3
    /\ Len(history) = 3
    /\ tubes[3].height = 50
    /\ tubes[3].thickness = 15

\* The tubes of ts whose id is not tubeId, in order.
Without(ts, tubeId) ==
    LET keep(t) == t.id # tubeId
    IN  SelectSeq(ts, keep)

\* C22: removeTube(id) with a tube of that id present removes it, the
\* remaining tubes keep their order, ids and poses, the selection becomes none
\* if the removed tube was the selected one and is otherwise unchanged, and
\* exactly one history entry holding the remaining tubes is pushed; with no
\* tube of that id the assembly, the selection, the history and the cursor
\* are unchanged.
C22_RemoveTube ==
    [][lastOp'.name = "removeTube" =>
          LET tubeId == lastOp'.arg[1]
          IN  IF Present(tubes, tubeId)
                THEN /\ FieldsOf(tubes') = FieldsOf(Without(tubes, tubeId))
                     /\ DistinctIds(tubes) => Len(tubes') = Len(tubes) - 1
                     /\ selectedTube'
                          = (IF selectedTube = tubeId THEN None ELSE selectedTube)
                     /\ historyIndex' = historyIndex + 1
                     /\ Len(history') = historyIndex + 2
                     /\ SubSeq(history', 1, historyIndex + 1)
                          = SubSeq(history, 1, historyIndex + 1)
                     /\ FieldsOf(history'[Len(history')]) = FieldsOf(tubes')
                ELSE UNCHANGED <<tubes, selectedTube, history, historyIndex>>]_vars

\* The first of three tubes was removed; the other two are left in order.
C22_Witness ==
    /\ lastOp = Op("removeTube", <<1>>)
    /\ created = 3
    /\ IdSeq(tubes) = <<2, 3>>
    /\ Len(history) = 4
    /\ historyIndex = 3
    /\ selectedTube = None

\* The fields of a tube other than its position.
FieldsButPosition(t) ==
    [id |-> t.id, width |-> t.width, height |-> t.height,
     thickness |-> t.thickness, length |-> t.length, rotation |-> t.rotation]

\* C23: dragging only translates: a pointer move during a drag changes at
\* most the position of the dragged tube, that is of one tube, whose id is the
\* dragged id; its rotation, dimensions and id, every field of every other
\* tube, and the order of the assembly are unchanged.
C23_DragOnlyTranslates ==
    [][(draggedTubeRef # None /\ lastOp'.name = "onMouseMove") =>
          /\ Len(tubes') = Len(tubes)
          /\ \A k \in 1 .. Len(tubes) :
                /\ FieldsButPosition(tubes'[k]) = FieldsButPosition(tubes[k])
                /\ tubes'[k].position # tubes[k].position =>
                      tubes[k].id = draggedTubeRef
          /\ Cardinality({k \in 1 .. Len(tubes) :
                            tubes'[k].position # tubes[k].position}) <= 1]_vars

\* C24: the drag session is always closed by the pointer release: after every
\* onMouseUp, whatever happened during the session, no tube is marked as
\* dragged, and a pointer move that follows changes the pose of no tube.
C24_ReleaseClosesDrag ==
    [][/\ lastOp'.name = "onMouseUp" => draggedTubeRef' = None
       /\ (lastOp.name = "onMouseUp" /\ lastOp'.name = "onMouseMove") =>
            /\ FieldsOf(tubes') = FieldsOf(tubes)
            /\ draggedTubeRef' = None]_vars

\* A drag that moved a tube has just been released.
C24_Witness ==
    /\ lastOp.name = "onMouseUp"
    /\ session.phase = "released"
    /\ Positions(session.released) # Positions(session.tubes)
    /\ draggedTubeRef = None
    /\ steps < MaxOps

\* C25: pointer moves never record history: after every onMouseMove, during a
\* drag or not and however many came before it, the history has the length
\* and every entry the number of tubes it had, and the cursor is where it was.
C25_MovesNeverRecord ==
    [][lastOp'.name = "onMouseMove" =>
          /\ Len(history') = Len(history)
          /\ historyIndex' = historyIndex
          /\ \A e \in 1 .. Len(history) :
                Len(history'[e]) = Len(history[e])]_vars

\* The second move of a drag, with two entries in the history.
C25_Witness ==
    /\ lastOp = Op("onMouseMove", <<10000, 0, 20000>>)
    /\ draggedTubeRef # None
    /\ session.phase = "dragging"
    /\ steps = 5
    /\ Len(history) = 2
    /\ historyIndex = 1
    /\ Positions(tubes) # Positions(session.tubes)

\* The fields the claim C26 lists for an export record.
ListedExportFields ==
    {"width", "height", "thickness", "length", "position", "rotation"}

\* C26: the export of an assembly of N tubes has exactly N records in chain
\* order, record i holds the values of tube i, and every record has exactly
\* the fields width, height, thickness, length, position {x, y, z} and
\* rotation {x, y, z}.
C26_ExportRecords ==
    [][lastOp'.name = "exportData" =>
          LET data == lastOp'.arg
          IN  /\ Len(data) = Len(tubes)
              /\ \A i \in 1 .. Len(tubes) :
                    /\ DOMAIN data[i] = ListedExportFields
                    /\ data[i].width = tubes[i].width
                    /\ data[i].height = tubes[i].height
                    /\ data[i].thickness = tubes[i].thickness
                    /\ data[i].length = tubes[i].length
                    /\ DOMAIN data[i].position = {"x", "y", "z"}
                    /\ DOMAIN data[i].rotation = {"x", "y", "z"}
                    /\ <<data[i].position.x, data[i].position.y,
                         data[i].position.z>> = tubes[i].position
                    /\ <<data[i].rotation.x, data[i].rotation.y,
                         data[i].rotation.z>> = tubes[i].rotation]_vars

\* C27: export is pure with respect to the engine state: it leaves the
\* assembly (order and every field of every tube, the selected flags
\* included), the selection, the dragged tube, the history and the cursor
\* unchanged.
C27_ExportIsPure ==
    [][lastOp'.name = "exportData" =>
          UNCHANGED <<tubes, selectedTube, draggedTubeRef, history,
                      historyIndex>>]_vars

\* An export of two tubes during a drag, with a tube selected.
C27_Witness ==
    /\ lastOp.name = "exportData"
    /\ Len(lastOp.arg) = 2
    /\ Len(tubes) = 2
    /\ draggedTubeRef # None
    /\ selectedTube # None
    /\ historyIndex = 1
    /\ tubes[2].position = <<10000, 0, 20000>>

\* C28: an addTube onto a non-empty assembly gives the new tube the yaw of
\* the last tube plus the joint angle and the rotation x and z of the last
\* tube, and leaves the pose of the last tube as it is.  The joint angle of
\* the events of this specification is 90, snapped or not; the pose computed
\* from the same assembly is also checked for the joint angles ChainAngles.
\* Angles are in degrees here, in radians (degrees * PI / 180) in the code.
C28_YawIsAdded ==
    [][(lastOp'.name = "addTube" /\ Len(tubes) > 0) =>
          LET n == Len(tubes)
              lastTube == tubes[n]
          IN  /\ tubes'[n + 1].rotation
                   = <<lastTube.rotation[1], lastTube.rotation[2] + 90,
                       lastTube.rotation[3]>>
              /\ Pose(tubes'[n]) = Pose(lastTube)
              /\ \A finalAngle \in ChainAngles, length \in Lengths :
                   placeNext(tubes, length, finalAngle).rotation
                     = <<lastTube.rotation[1],
                         lastTube.rotation[2] + finalAngle,
                         lastTube.rotation[3]>>]_vars

\* A third tube added onto a tube with yaw 90: its yaw is 180.
C28_Witness ==
    /\ lastOp.name = "addTube"
    /\ steps = 3
    /\ Len(tubes) = 3
    /\ tubes[2].rotation = <<0, 90, 0>>
    /\ tubes[3].rotation = <<0, 180, 0>>

\* The position addTube gives a tube of pose rotation and length length that
\* is joined to a tube at position p with the fields of lastTube.
JoinedAt(p, lastTube, length, rotation) ==
    VecAdd(VecAdd(p, applyEuler(lastTube.length, lastTube.rotation)),
           applyEuler(length, rotation))

\* C29: a drag rebases the chain: an addTube right after the release of a
\* drag that moved the last tube computes the joint point from the position
\* the tube was dragged to and its rotation, not from the position it had
\* before; and an addTube onto a last tube that an undo or a redo put in
\* place computes it from the position recorded in the restored entry.
C29_DragRebasesChain ==
    [][(lastOp'.name = "addTube" /\ Len(tubes) > 0) =>
          LET n == Len(tubes)
              lastTube == tubes[n]
              newTube == tubes'[n + 1]
          IN  /\ (/\ session.phase = "released"
                  /\ session.released[n].position
                       # session.tubes[n].position) =>
                    newTube.position
                      = JoinedAt(session.released[n].position, lastTube,
                                 newTube.length, newTube.rotation)
              /\ (/\ lastOp.name \in {"undo", "redo"}
                  /\ lastTube.shared = <<historyIndex + 1, n>>) =>
                    newTube.position
                      = JoinedAt(history[historyIndex + 1][n].position,
                                 lastTube, newTube.length, newTube.rotation)]_vars

\* A third tube added right after the second one was dragged to (10, 0, 20).
C29_Witness ==
    /\ lastOp.name = "addTube"
    /\ steps = 6
    /\ Len(tubes) = 3
    /\ Pose(tubes[2]) = [position |-> <<10000, 0, 20000>>,
                         rotation |-> <<0, 90, 0>>]
    /\ Pose(tubes[3]) = [position |-> <<60000, 0, -30000>>,
                         rotation |-> <<0, 180, 0>>]

\* C30: the selected id is none or the id of a tube of the live assembly; in
\* particular after an undo() or a redo() that restores an assembly without
\* the tube that was selected, the selection is none.
C30_SelectionIsLive ==
    NoIdClash => (selectedTube = None \/ Present(tubes, selectedTube))

\* C31: whenever no drag is in progress and the history is not empty, the
\* live assembly equals the history entry at the cursor, tube for tube: same
\* ids in the same order, same dimensions, positions and rotations.
C31_LiveIsEntryAtCursor ==
    (draggedTubeRef = None /\ Len(history) > 0) =>
        FieldsOf(tubes) = FieldsOf(history[historyIndex + 1])

\* A drag that moved the second of two tubes has been released.
C31_Witness ==
    /\ lastOp.name = "onMouseUp"
    /\ session.phase = "released"
    /\ draggedTubeRef = None
    /\ Len(tubes) = 2
    /\ tubes[2].position = <<10000, 0, 20000>>
    /\ Len(history) > 0
    /\ history[historyIndex + 1][2].position = <<10000, 0, 20000>>

\* C32: selecting does not touch the history: a press on a tube followed by
\* the release with no move in between leaves the history and the cursor as
\* they were, and so do the press itself and a click on a row of the tube
\* list.
C32_SelectingKeepsHistory ==
    [][/\ (/\ lastOp.name = "onMouseDown"
           /\ lastOp.arg # << >>
           /\ lastOp'.name = "onMouseUp"
           /\ NoIdClash) =>
            /\ HistoryFields' = HistoryFields
            /\ historyIndex' = historyIndex
       /\ (lastOp'.name \in {"onMouseDown", "selectTube"} /\ NoIdClash) =>
            /\ HistoryFields' = HistoryFields
            /\ historyIndex' = historyIndex]_vars

YawOnly(ts) ==
    \A k \in 1 .. Len(ts) : ts[k].rotation[1] = 0 /\ ts[k].rotation[3] = 0

\* C33: every tube is rotated about the vertical axis only: every tube of the
\* live assembly and of every history entry has rotation x = 0 and rotation
\* z = 0.
C33_RotationAboutYOnly ==
    /\ YawOnly(tubes)
    /\ \A e \in 1 .. Len(history) : YawOnly(history[e])

\* Three tubes with yaw 0, 90 and 180, rebuilt from the third entry by a redo.
C33_Witness ==
    /\ lastOp.name = "redo"
    /\ historyIndex = 2
    /\ Len(tubes) = 3
    /\ tubes[3].rotation = <<0, 180, 0>>
    /\ tubes[3].shared = <<3, 3>>
    /\ history[3][2].rotation = <<0, 90, 0>>

\* C34: every tube stays on the reference plane: every tube of the live
\* assembly has position y = 0.
C34_OnReferencePlane ==
    \A k \in 1 .. Len(tubes) : tubes[k].position[2] = 0

\* A tube joined to a tube that is being dragged over the plane.
C34_Witness ==
    /\ lastOp.name = "addTube"
    /\ draggedTubeRef # None
    /\ Len(tubes) = 2
    /\ tubes[1].position = <<10000, 0, 20000>>
    /\ tubes[2].position = <<60000, 0, 70000>>

\* C35: with the tube type square addTube creates a tube whose height equals
\* its width, the width parameter, whatever the height parameter holds; with
\* the type rectangular the width and the height of the tube are the width
\* and the height parameters.  The tube is stored with the same values in
\* the entry the add records.
C35_SquareHeightIsWidth ==
    [][lastOp'.name = "addTube" =>
          LET in == OpInput(lastOp')
              newTube == tubes'[Len(tubes')]
              recorded == history'[Len(history')][Len(tubes')]
          IN  /\ newTube.width = in.width
              /\ in.tubeType = "square" => newTube.height = in.width
              /\ in.tubeType = "rectangular" => newTube.height = in.height
              /\ recorded.width = newTube.width
              /\ recorded.height = newTube.height]_vars

\* A square tube added first with the height parameter at 30: it is 50 x 50.
C35_Witness ==
    /\ lastOp.name = "addTube"
    /\ OpInput(lastOp).tubeType = "square"
    /\ OpInput(lastOp).height = 30
    /\ Len(tubes) = 1
    /\ tubes[1].width = 50
    /\ tubes[1].height = 50

====
